---- MODULE Spec2Model ----
(***************************************************************************)
(* FileFerry agent: the SSO session lifecycle (src/handlers/sso_handler.py *)
(* and the auth_sso / cleanup lambdas, all working on the ActiveSessions   *)
(* table), the transfer strategy selection (Agenttools.py), the chunked    *)
(* transfer and transfer_ftp lambdas, the transfer handler with its retry  *)
(* policy, the operations that authenticate, the outcome prediction and    *)
(* the outcome history (AgentLearning table).                              *)
(***************************************************************************)
EXTENDS Integers, Sequences, FiniteSets, TLC

VARIABLES
    sessions,      \* the ActiveSessions table: a set of session records
    now,           \* int(time.time()), seconds
    nextTok,       \* number of uuid4 session tokens drawn so far
    test_mode,     \* SSOHandler.test_mode (config agent.test_mode)
    call,          \* per caller: the authenticate_user call in flight
    consumed,      \* request ids whose session record has been removed
    cred,          \* the get_session_credentials call in flight
    last,          \* the operation step just taken and what it returned
    file_size,     \* the object size given to the strategy / chunk code
    strategy,      \* result of analyze_transfer_request
    chunk,         \* state of the chunked_transfer lambda's invocation
    ftp,           \* state of the transfer_ftp lambda's invocation
    transfers,     \* the TransferRequests table: transfer_id -> item
    xfer,          \* the stream_s3_to_ftp call in flight, under its retry policy
    hf,            \* the caller driving handle_transfer_failure
    agent,         \* the agent operation in flight (process_transfer_request or a tool)
    active,        \* sessions the SSO handler has handed out and not yet logged out
    pred,          \* the predict_transfer_outcome call and its result
    learning,      \* the AgentLearning table: a set of items, one per key
    writer,        \* per writer: the store_learning_data call in flight
    utcnow,        \* datetime.utcnow(), in clock ticks
    puts,          \* number of put_item calls on AgentLearning that succeeded
    buckets,       \* the size buckets the components assign to one object
    disp,          \* the tool dispatcher call (AgentTools.execute / _execute_tool)
    sftp,          \* the _stream_to_sftp call in flight and its destination file
    job,           \* the TransferJob given to start_transfer_async, and what was sent
    gate,          \* the session-gated tool call of the integrated AgentTools
    bedrock        \* the _call_bedrock request in flight

ssoVars   == <<sessions, now, nextTok, test_mode, call, consumed, cred, last>>
xferVars  == <<file_size, strategy, chunk>>
toolVars  == <<disp, sftp, job, gate, bedrock>>
execVars  == <<ftp, transfers, xfer, hf, agent, active,
               pred, learning, writer, utcnow, puts, buckets, toolVars>>
learnVars == <<learning, writer, utcnow, puts>>
exceptFtp == <<ssoVars, xferVars, transfers, xfer, hf, agent, active, pred,
               learnVars, buckets, toolVars>>
exceptTransfer == <<ssoVars, xferVars, ftp, agent, active, pred, learnVars,
                    buckets, toolVars>>
exceptAgent == <<ssoVars, xferVars, ftp, transfers, xfer, hf, pred,
                 learnVars, buckets, toolVars>>
exceptPredict == <<ssoVars, xferVars, ftp, transfers, xfer, hf, agent, active,
                   learnVars, buckets, toolVars>>
exceptLearn == <<ssoVars, xferVars, ftp, transfers, xfer, hf, agent, active,
                 pred, buckets, toolVars>>
exceptBuckets == <<ssoVars, xferVars, ftp, transfers, xfer, hf, agent, active,
                   pred, learnVars, toolVars>>
vars      == <<sessions, now, nextTok, test_mode, call, consumed,
               cred, last, file_size, strategy, chunk, ftp,
               transfers, xfer, hf, agent, active, pred,
               learning, writer, utcnow, puts, buckets,
               disp, sftp, job, gate, bedrock>>
coreVars  == <<ftp, transfers, xfer, hf, agent, active, pred, learnVars,
               buckets>>
exceptDisp    == <<ssoVars, xferVars, coreVars, sftp, job, gate, bedrock>>
exceptSftp    == <<ssoVars, xferVars, coreVars, disp, job, gate, bedrock>>
exceptJob     == <<ssoVars, xferVars, coreVars, disp, sftp, gate, bedrock>>
exceptGate    == <<ssoVars, xferVars, coreVars, disp, sftp, job, bedrock>>
exceptBedrock == <<ssoVars, xferVars, coreVars, disp, sftp, job, gate>>

(***************************************************************************)
(* Bounds of the model.                                                    *)
(***************************************************************************)
MaxTime     == 10     \* the clock stops here
TickSeconds == 10     \* the clock is sampled every TickSeconds seconds
MaxTokens   == 2      \* uuid4 session tokens drawn in one run
MaxChunks   == 6      \* object sizes go up to MaxChunks * chunk_size
MaxDelta    == 3      \* object sizes lie this close around each tier boundary
MaxBlocks   == 2      \* an object body read by transfer_ftp has up to MaxBlocks blocks
MaxOps      == 3      \* agent operations started in one run
MaxHistory  == 21     \* history records of one transfer type
MaxCalls    == 3      \* store_learning_data calls started in one run
MaxClock    == 1      \* ticks of the utcnow clock in one run
MaxPayload  == 3      \* bytes of a payload streamed by _stream_to_sftp
MaxChunkSize == 2     \* self.chunk_size of the transfer handler, in bytes
MaxModelCalls == 4    \* model calls counted per request
MaxMessages == 6      \* messages counted in one request body

(***************************************************************************)
(* Program constants.                                                      *)
(***************************************************************************)
session_duration == 10
LambdaSessionSeconds == 10
MiB == 1048576
chunk_size == 10 * MiB
DemoChunkLimit == 5

\* No call in flight: the value of a variable whose component has not started.
NoCall == << >>

Callers == {"c1", "c2"}
NoTok      == 0
UnknownTok == MaxTokens + 1     \* a token value that is never issued

REQ1 == <<"R", "E", "Q", "1">>
INC1 == <<"I", "N", "C", "1">>
TKT1 == <<"T", "K", "T", "1">>
Requests == {<< >>, REQ1, INC1, TKT1}
Tickets  == {REQ1, TKT1}      \* event['servicenow_tickets'][0] of auth_sso

\* Outcome of one call to the DynamoDB / STS client: it answers, it raises
\* botocore ClientError (the service rejected or throttled the request), or
\* it raises another error (BotoCoreError: endpoint unreachable, timeout).
StoreOutcomes == {"ok", "ClientError", "BotoCoreError"}

StartsWith(s, p) == Len(s) >= Len(p) /\ SubSeq(s, 1, Len(p)) = p

Idle   == [pc |-> "idle", req |-> << >>, scan |-> "ok", was |-> FALSE,
           raced |-> FALSE]
NoRead == [pc |-> "idle", tok |-> NoTok]

\* The step just taken: the operation, its arguments, what it returned, the
\* outcome of its store call, and for authenticate_user whether the request
\* id had a removed session when the call began (was) and whether another
\* call with the same request id stored a session while it ran (raced).
Step(op, req, tok, ret, fault, was, raced) ==
    [op |-> op, req |-> req, tok |-> tok, ret |-> ret, fault |-> fault,
     was |-> was, raced |-> raced]

Other(op, req, tok, ret, fault) == Step(op, req, tok, ret, fault, FALSE, FALSE)

(***************************************************************************)
(* The ActiveSessions table.                                               *)
(***************************************************************************)
Item(tok) == CHOOSE s \in sessions : s.token = tok
HasItem(tok) == \E s \in sessions : s.token = tok
ItemsOf(req) == {s \in sessions : s.servicenow_request_id = req}

\* SSOHandler._validate_servicenow_request
_validate_servicenow_request(req) ==
    IF test_mode THEN TRUE
    ELSE IF req = << >> THEN FALSE
    ELSE IF ~(StartsWith(req, <<"R", "E", "Q">>) \/ StartsWith(req, <<"I", "N", "C">>))
         THEN FALSE
    ELSE TRUE

\* The scan of _is_request_already_used: Limit=1 makes DynamoDB evaluate one
\* item of the table (whichever comes first in its scan order) and apply the
\* filter to that item only.  ScanCounts is the set of Count values the scan
\* can answer.
ScanCounts(req) ==
    IF sessions = {} THEN {0}
    ELSE {IF s.servicenow_request_id = req THEN 1 ELSE 0 : s \in sessions}

\* _is_request_already_used answering 'not used' when the scan fails.
_is_request_already_used_fail_open(outcome, count) ==
    IF outcome # "ok" THEN "False"
    ELSE IF count > 0 THEN "True" ELSE "False"

\* SSOHandler._is_request_already_used, given the outcome of the scan call.
\* "raise" stands for an error that is not caught in the method.
_is_request_already_used(outcome, count) ==
    IF outcome = "ClientError" THEN "True"
    ELSE IF outcome = "BotoCoreError" THEN "raise"
    ELSE IF count > 0 THEN "True" ELSE "False"

\* The record _store_session puts.
HandlerItem(tok, req) ==
    [token |-> tok, servicenow_request_id |-> req, created_at |-> now,
     ttl |-> now + session_duration, has_credentials |-> TRUE]

\* The record the auth_sso lambda puts: no aws_* attributes.
LambdaItem(tok, req) ==
    [token |-> tok, servicenow_request_id |-> req, created_at |-> now,
     ttl |-> now + LambdaSessionSeconds, has_credentials |-> FALSE]

InFlightStores == Cardinality({p \in Callers : call[p].pc = "store"})

(***************************************************************************)
(* SSOHandler.authenticate_user, in two steps: the validation and the      *)
(* 'already used' scan, then STS, uuid4 and put_item.                      *)
(***************************************************************************)
AuthScan(p) ==
    /\ call[p].pc = "idle"
    /\ nextTok + InFlightStores < MaxTokens
    /\ \E req \in Requests, outcome \in StoreOutcomes :
       \E count \in ScanCounts(req) :
         LET used == _is_request_already_used(outcome, count)
             was  == req \in consumed
         IN  IF ~_validate_servicenow_request(req)
             THEN /\ last' = Step("authenticate_user", req, NoTok,
                                  "SSOAuthenticationError", "invalid", was, FALSE)
                  /\ UNCHANGED call
             ELSE IF used # "False"
             THEN /\ last' = Step("authenticate_user", req, NoTok,
                                  "SSOAuthenticationError", outcome, was, FALSE)
                  /\ UNCHANGED call
             ELSE /\ call' = [call EXCEPT ![p] =
                        [pc |-> "store", req |-> req, scan |-> outcome,
                         was |-> was, raced |-> FALSE]]
                  /\ last' = Step("authenticate_user_scan", req, NoTok,
                                  "pending", outcome, was, FALSE)
    /\ UNCHANGED <<sessions, now, nextTok, test_mode, consumed, cred>>
    /\ UNCHANGED <<xferVars, execVars>>

\* The calls in flight that learn that a session for req was stored meanwhile.
Racing(p, req) ==
    [q \in Callers |->
        IF q = p THEN Idle
        ELSE IF call[q].pc = "store" /\ call[q].req = req
             THEN [call[q] EXCEPT !.raced = TRUE]
             ELSE call[q]]

\* outcome is that of put_item; sts that of _get_temporary_credentials
AuthStore(p) ==
    /\ call[p].pc = "store"
    /\ \E sts \in {"ok", "STSError"}, outcome \in StoreOutcomes :
         LET req == call[p].req
             tok == nextTok + 1
             was == call[p].was
             raced == call[p].raced
         IN  IF sts # "ok" /\ ~test_mode
             THEN /\ call' = [call EXCEPT ![p] = Idle]
                  /\ last' = Step("authenticate_user", req, NoTok,
                                  "SSOAuthenticationError", sts, was, raced)
                  /\ UNCHANGED <<sessions, nextTok>>
             ELSE IF outcome # "ok"
             THEN /\ call' = [call EXCEPT ![p] = Idle]
                  /\ last' = Step("authenticate_user", req, NoTok,
                                  "SSOAuthenticationError", outcome, was, raced)
                  /\ UNCHANGED <<sessions, nextTok>>
             ELSE /\ sessions' = sessions \cup {HandlerItem(tok, req)}
                  /\ nextTok' = tok
                  /\ call' = Racing(p, req)
                  /\ last' = Step("authenticate_user", req, tok, "token",
                                  call[p].scan, was, raced)
    /\ UNCHANGED <<now, test_mode, consumed, cred>>
    /\ UNCHANGED <<xferVars, execVars>>

(***************************************************************************)
(* The tokens a caller can pass: every token issued so far and one that    *)
(* was never issued.                                                       *)
(***************************************************************************)
TokenArgs == (1 .. nextTok) \cup {UnknownTok}

\* is_session_valid with the expiry test off by one (current_time > ttl).
is_session_valid_off_by_one(tok, outcome) ==
    IF outcome = "ClientError" THEN "False"
    ELSE IF outcome = "BotoCoreError" THEN "raise"
    ELSE IF ~HasItem(tok) THEN "False"
    ELSE IF now > Item(tok).ttl THEN "False"
    ELSE "True"

\* SSOHandler.is_session_valid, given the outcome of its get_item call.
\* "raise" stands for an error that leaves the method uncaught.
is_session_valid(tok, outcome) ==
    IF outcome = "ClientError" THEN "False"
    ELSE IF outcome = "BotoCoreError" THEN "raise"
    ELSE IF ~HasItem(tok) THEN "False"
    ELSE IF now >= Item(tok).ttl THEN "False"
    ELSE "True"

IsSessionValid ==
    /\ \E tok \in TokenArgs, outcome \in StoreOutcomes :
         last' = Other("is_session_valid", << >>, tok,
                       is_session_valid(tok, outcome), outcome)
    /\ UNCHANGED <<sessions, now, nextTok, test_mode, call, consumed, cred>>
    /\ UNCHANGED <<xferVars, execVars>>

(***************************************************************************)
(* SSOHandler.get_session_credentials, in two steps: the is_session_valid  *)
(* check with its get_item, then the second get_item.                      *)
(***************************************************************************)
GetCredsCheck ==
    /\ cred.pc = "idle"
    /\ \E tok \in TokenArgs, outcome \in StoreOutcomes :
         LET valid == is_session_valid(tok, outcome)
         IN  IF valid = "True"
             THEN /\ cred' = [pc |-> "read", tok |-> tok]
                  /\ last' = Other("get_session_credentials_check", << >>, tok,
                                   "pending", outcome)
             ELSE /\ cred' = NoRead
                  /\ last' = Other("get_session_credentials", << >>, tok,
                                   IF valid = "raise" THEN "raise" ELSE "None",
                                   outcome)
    /\ UNCHANGED <<sessions, now, nextTok, test_mode, call, consumed>>
    /\ UNCHANGED <<xferVars, execVars>>

\* The second get_item and the read of the aws_* attributes of the item.
ReadCredentials(tok, outcome) ==
    IF outcome = "ClientError" THEN "None"
    ELSE IF outcome = "BotoCoreError" THEN "raise"
    ELSE IF ~HasItem(tok) THEN "None"
    ELSE IF ~Item(tok).has_credentials THEN "raise"
    ELSE "credentials"

GetCredsRead ==
    /\ cred.pc = "read"
    /\ \E outcome \in StoreOutcomes :
         last' = Other("get_session_credentials", << >>, cred.tok,
                       ReadCredentials(cred.tok, outcome), outcome)
    /\ cred' = NoRead
    /\ UNCHANGED <<sessions, now, nextTok, test_mode, call, consumed>>
    /\ UNCHANGED <<xferVars, execVars>>

(***************************************************************************)
(* Revocation: SSOHandler.auto_logout and the cleanup lambda.              *)
(***************************************************************************)
DeleteItem(tok) == {s \in sessions : s.token # tok}
Removed(tok) == {s.servicenow_request_id : s \in sessions \ DeleteItem(tok)}

\* SSOHandler.auto_logout: what it returns, given the outcome of delete_item
auto_logout(tok, outcome) ==
    IF outcome = "ClientError" THEN "False"
    ELSE IF outcome = "BotoCoreError" THEN "raise"
    ELSE IF HasItem(tok) THEN "True" ELSE "False"

AutoLogout ==
    /\ \E tok \in TokenArgs, outcome \in StoreOutcomes :
         /\ sessions' = IF outcome = "ok" THEN DeleteItem(tok) ELSE sessions
         /\ consumed' = IF outcome = "ok" THEN consumed \cup Removed(tok)
                                          ELSE consumed
         /\ last' = Other("auto_logout", << >>, tok, auto_logout(tok, outcome),
                          outcome)
    /\ UNCHANGED <<now, nextTok, test_mode, call, cred>>
    /\ UNCHANGED <<xferVars, execVars>>

\* cleanup.lambda_handler with an ssoSession in the event: every error of
\* delete_item is caught and the lambda answers 'cleaned'.
CleanupLambda ==
    /\ \E tok \in TokenArgs, outcome \in StoreOutcomes :
         /\ sessions' = IF outcome = "ok" THEN DeleteItem(tok) ELSE sessions
         /\ consumed' = IF outcome = "ok" THEN consumed \cup Removed(tok)
                                          ELSE consumed
         /\ last' = Other("cleanup", << >>, tok, "cleaned", outcome)
    /\ UNCHANGED <<now, nextTok, test_mode, call, cred>>
    /\ UNCHANGED <<xferVars, execVars>>

(***************************************************************************)
(* auth_sso.lambda_handler: uuid4, ttl, put_item; no validation, no scan.  *)
(***************************************************************************)
AuthSsoLambda ==
    /\ nextTok + InFlightStores < MaxTokens
    /\ \E req \in Tickets, outcome \in StoreOutcomes :
         LET tok == nextTok + 1
         IN  IF outcome = "ok"
             THEN /\ sessions' = sessions \cup {LambdaItem(tok, req)}
                  /\ nextTok' = tok
                  /\ last' = Other("auth_sso", req, tok, "authenticated", "ok")
             ELSE /\ last' = Other("auth_sso", req, NoTok, "error", outcome)
                  /\ UNCHANGED <<sessions, nextTok>>
    /\ UNCHANGED <<now, test_mode, call, consumed, cred>>
    /\ UNCHANGED <<xferVars, execVars>>

(***************************************************************************)
(* The clock and the table's TTL garbage collection.                       *)
(***************************************************************************)
Tick ==
    /\ now + TickSeconds <= MaxTime
    /\ now' = now + TickSeconds
    /\ last' = Other("tick", << >>, NoTok, "none", "ok")
    /\ UNCHANGED <<sessions, nextTok, test_mode, call, consumed, cred>>
    /\ UNCHANGED <<xferVars, execVars>>

TTLExpire ==
    /\ \E s \in sessions :
         /\ s.ttl <= now
         /\ sessions' = sessions \ {s}
         /\ consumed' = consumed \cup {s.servicenow_request_id}
         /\ last' = Other("ttl_expire", s.servicenow_request_id, s.token,
                          "none", "ok")
    /\ UNCHANGED <<now, nextTok, test_mode, call, cred>>
    /\ UNCHANGED <<xferVars, execVars>>

(***************************************************************************)
(* AgentTools.analyze_transfer_request (Agenttools.py).                    *)
(***************************************************************************)
DestinationTypes == {"sftp", "ftp"}
Users == {"alice", "bob"}

Max(a, b) == IF a >= b THEN a ELSE b
Min(a, b) == IF a <= b THEN a ELSE b

\* analyze_transfer_request with the first threshold inclusive (<= 10 MiB).
analyze_transfer_request_inclusive(size, destination_type, user_id) ==
    IF size <= 10 * 1024 * 1024
    THEN [status |-> "success", category |-> "small", chunk_size_mb |-> 0,
          parallel_uploads |-> 1, compression |-> FALSE,
          estimated_duration_seconds |-> Max(5, size \div (5 * 1024 * 1024)),
          risk_level |-> "low", destination_type |-> destination_type]
    ELSE IF size < 100 * 1024 * 1024
    THEN [status |-> "success", category |-> "medium", chunk_size_mb |-> 10,
          parallel_uploads |-> 4, compression |-> TRUE,
          estimated_duration_seconds |-> size \div (10 * 1024 * 1024),
          risk_level |-> "low", destination_type |-> destination_type]
    ELSE IF size < 1024 * 1024 * 1024
    THEN [status |-> "success", category |-> "large", chunk_size_mb |-> 20,
          parallel_uploads |-> 8, compression |-> TRUE,
          estimated_duration_seconds |-> size \div (15 * 1024 * 1024),
          risk_level |-> "medium", destination_type |-> destination_type]
    ELSE [status |-> "success", category |-> "xlarge", chunk_size_mb |-> 50,
          parallel_uploads |-> 16, compression |-> TRUE,
          estimated_duration_seconds |-> size \div (20 * 1024 * 1024),
          risk_level |-> "high", destination_type |-> destination_type]

analyze_transfer_request(size, destination_type, user_id) ==
    IF size < 10 * 1024 * 1024
    THEN [status |-> "success", category |-> "small", chunk_size_mb |-> 0,
          parallel_uploads |-> 1, compression |-> FALSE,
          estimated_duration_seconds |-> Max(5, size \div (5 * 1024 * 1024)),
          risk_level |-> "low", destination_type |-> destination_type]
    ELSE IF size < 100 * 1024 * 1024
    THEN [status |-> "success", category |-> "medium", chunk_size_mb |-> 10,
          parallel_uploads |-> 4, compression |-> TRUE,
          estimated_duration_seconds |-> size \div (10 * 1024 * 1024),
          risk_level |-> "low", destination_type |-> destination_type]
    ELSE IF size < 1024 * 1024 * 1024
    THEN [status |-> "success", category |-> "large", chunk_size_mb |-> 20,
          parallel_uploads |-> 8, compression |-> TRUE,
          estimated_duration_seconds |-> size \div (15 * 1024 * 1024),
          risk_level |-> "medium", destination_type |-> destination_type]
    ELSE [status |-> "success", category |-> "xlarge", chunk_size_mb |-> 50,
          parallel_uploads |-> 16, compression |-> TRUE,
          estimated_duration_seconds |-> size \div (20 * 1024 * 1024),
          risk_level |-> "high", destination_type |-> destination_type]

\* Object sizes around the tier boundaries, and a few in between.
TierBoundaries == {0, 10 * MiB, 100 * MiB, 1024 * MiB}
FileSizes ==
    {b + d : b \in TierBoundaries, d \in 0 .. MaxDelta}
    \cup {b - d : b \in TierBoundaries \ {0}, d \in 1 .. MaxDelta}
    \cup {2048, 50 * MiB, 250 * MiB, 1536 * MiB}

NoStrategy == [status |-> "none"]

Analyze ==
    /\ \E size \in FileSizes, dest \in DestinationTypes, user \in Users :
         /\ file_size' = size
         /\ strategy' = [user_id |-> user,
                         result |-> analyze_transfer_request(size, dest, user)]
    /\ UNCHANGED chunk
    /\ UNCHANGED <<ssoVars, execVars>>

(***************************************************************************)
(* chunked_transfer.lambda_handler: the loop over the chunks, one          *)
(* iteration per step, then the return.                                    *)
(***************************************************************************)
ChunkFileSizes ==
    {k * chunk_size + d : k \in 0 .. MaxChunks, d \in {0, 1}}
    \cup {k * chunk_size - 1 : k \in 1 .. MaxChunks}

num_chunks(size) == (size + chunk_size - 1) \div chunk_size

RECURSIVE SumSizes(_)
SumSizes(cs) == IF cs = << >> THEN 0 ELSE Head(cs).size + SumSizes(Tail(cs))

\* len(response['Body'].read()) for Range bytes=start-end of an object of
\* the given size: S3 returns the bytes start .. min(end, size - 1).
RangeLength(size, start, end) == Min(end, size - 1) - start + 1

NoChunk == [pc |-> "none"]

\* The locals of lambda_handler when its loop begins, and the byte ranges
\* uploaded to the destination: no statement of the lambda uploads chunk_data
\* ("In production: upload this chunk to FTP/SFTP. For now, just record
\* success"), so destination stays empty.
FirstChunk == [pc |-> "loop", i |-> 0, chunks_completed |-> << >>,
               destination |-> {}, result |-> [status |-> "none"]]

ChunkBegin ==
    /\ chunk.pc = "none"
    /\ chunk' = FirstChunk
    /\ UNCHANGED <<file_size, strategy>>
    /\ UNCHANGED <<ssoVars, execVars>>

\* One iteration of the for loop; get_object may raise, which ends the
\* handler in its except branch.
ChunkRead ==
    /\ chunk.pc = "loop"
    /\ chunk.i < Min(num_chunks(file_size), DemoChunkLimit)
    /\ \E s3 \in {"ok", "error"} :
         LET i          == chunk.i
             start_byte == i * chunk_size
             end_byte   == Min((i + 1) * chunk_size, file_size) - 1
         IN  IF s3 = "ok"
             THEN chunk' = [chunk EXCEPT
                     !.i = i + 1,
                     !.chunks_completed = Append(@,
                         [chunk_id |-> i, start_byte |-> start_byte,
                          end_byte |-> end_byte,
                          size |-> RangeLength(file_size, start_byte, end_byte)])]
             ELSE chunk' = [chunk EXCEPT !.pc = "done",
                                         !.result = [status |-> "failed"]]
    /\ UNCHANGED <<file_size, strategy>>
    /\ UNCHANGED <<ssoVars, execVars>>

ChunkReturn ==
    /\ chunk.pc = "loop"
    /\ chunk.i >= Min(num_chunks(file_size), DemoChunkLimit)
    /\ chunk' = [chunk EXCEPT
            !.pc = "done",
            !.result = [status |-> "completed",
                        total_chunks |-> num_chunks(file_size),
                        chunks_completed |-> Len(chunk.chunks_completed),
                        bytes_transferred |-> SumSizes(chunk.chunks_completed)]]
    /\ UNCHANGED <<file_size, strategy>>
    /\ UNCHANGED <<ssoVars, execVars>>

(***************************************************************************)
(* The transfer_ftp lambda                                                 *)
(* (cloudshell-deployment/lambda_functions/transfer_ftp.py).               *)
(* The body of the S3 object is a sequence of blocks as storbinary reads   *)
(* them; a block is abstracted to one symbol. hashlib.md5 is abstracted to *)
(* a running hash with HashValues values, updated block by block.          *)
(***************************************************************************)
blocksize   == 8192
BlockValues == {0, 1}
HashValues  == 3
NoChecksum  == -1      \* file_metadata carries no md5_checksum

Bodies == UNION {[1 .. n -> BlockValues] : n \in 0 .. MaxBlocks}

\* checksum.update(data) on the digest state h
md5_update(h, data) == (2 * h + data + 1) % HashValues

NoFtp == [pc |-> "none"]

FtpFailed == [status |-> "failed"]

\* The event arrives: the object to read and the file_metadata of the plan.
FtpBegin ==
    /\ ftp.pc = "none"
    /\ \E body \in Bodies, sum \in {NoChecksum} \cup (0 .. HashValues - 1) :
         ftp' = [pc |-> "connect", body |-> body, md5_checksum |-> sum,
                 i |-> 0, bytes_transferred |-> 0, checksum |-> 0,
                 result |-> [status |-> "none"]]
    /\ UNCHANGED exceptFtp

\* ftp.connect and ftp.login; either may raise.
FtpConnect ==
    /\ ftp.pc = "connect"
    /\ \E r \in {"ok", "refused", "login_denied"} :
         IF r = "ok"
         THEN ftp' = [ftp EXCEPT !.pc = "cwd"]
         ELSE ftp' = [ftp EXCEPT !.pc = "done", !.result = FtpFailed]
    /\ UNCHANGED exceptFtp

\* ftp.cwd, and mkd + cwd when the directory does not exist.
FtpCwd ==
    /\ ftp.pc = "cwd"
    /\ \E r \in {"ok", "created", "rejected"} :
         IF r \in {"ok", "created"}
         THEN ftp' = [ftp EXCEPT !.pc = "get"]
         ELSE ftp' = [ftp EXCEPT !.pc = "done", !.result = FtpFailed]
    /\ UNCHANGED exceptFtp

FtpGetObject ==
    /\ ftp.pc = "get"
    /\ \E r \in {"ok", "NoSuchKey"} :
         IF r = "ok"
         THEN ftp' = [ftp EXCEPT !.pc = "stor"]
         ELSE ftp' = [ftp EXCEPT !.pc = "done", !.result = FtpFailed]
    /\ UNCHANGED exceptFtp

\* storbinary sends one block and calls read_callback on it; the
\* connection may fail instead.
FtpStoreBlock ==
    /\ ftp.pc = "stor"
    /\ ftp.i < Len(ftp.body)
    /\ \E r \in {"ok", "timeout"} :
         IF r = "ok"
         THEN ftp' = [ftp EXCEPT
                 !.i = @ + 1,
                 !.bytes_transferred = @ + blocksize,
                 !.checksum = md5_update(@, ftp.body[ftp.i + 1])]
         ELSE ftp' = [ftp EXCEPT !.pc = "done", !.result = FtpFailed]
    /\ UNCHANGED exceptFtp

\* End of the stream: quit, compare the checksum if one was given, return.
FtpReturn ==
    /\ ftp.pc = "stor"
    /\ ftp.i = Len(ftp.body)
    /\ LET checksum_match ==
               IF ftp.md5_checksum # NoChecksum
               THEN (IF ftp.checksum = ftp.md5_checksum THEN "True"
                                                       ELSE "False")
               ELSE "None"
       IN  ftp' = [ftp EXCEPT
               !.pc = "done",
               !.result = [status |-> "completed",
                           bytes_transferred |-> ftp.bytes_transferred,
                           md5_checksum |-> ftp.checksum,
                           checksum_match |-> checksum_match]]
    /\ UNCHANGED exceptFtp

(***************************************************************************)
(* TransferHandler (src/handlers/transfer_handler.py): stream_s3_to_ftp    *)
(* under its tenacity retry policy, handle_transfer_failure driven with    *)
(* the retry_count it returns, and _update_transfer_status on the          *)
(* TransferRequests table.                                                 *)
(***************************************************************************)
StreamId  == "transfer-stream"      \* transfer_id given to stream_s3_to_ftp
FailureId == "transfer-failure"     \* transfer_id given to handle_transfer_failure
TransferIds == {StreamId, FailureId}

\* What one attempt of a transfer can meet: success, a transient failure
\* (timeout, connection reset), or a permanent one (login denied, remote
\* path rejected, source object missing, integrity mismatch).
TransientFailures == {"Timeout"}
PermanentFailures == {"AuthDenied", "PathRejected", "NoSuchKey",
                      "IntegrityError"}
\* stream_s3_to_ftp compares no checksum, so it never meets IntegrityError.
StreamFailures == TransientFailures \cup
                  {"AuthDenied", "PathRejected", "NoSuchKey"}
Protocols == {"ftp", "sftp", "ftps"}

stop_after_attempt == 3      \* @retry(stop=stop_after_attempt(3), ...)
max_retries == 3             \* handle_transfer_failure

\* The table has no item of a transfer until update_item creates it.
NoItem == [status |-> "absent", retry_count |-> 0, final_failure |-> FALSE,
           error |-> "none"]
NoTransfers == << >>
ItemOf(table, transfer_id) ==
    IF transfer_id \in DOMAIN table THEN table[transfer_id] ELSE NoItem

\* The values update_item is given: ':status' is set from the status
\* argument and then every metadata key k sets ':k', so a metadata key
\* named status replaces the status argument.
expr_values(status, metadata) ==
    [k \in {"status"} \cup DOMAIN metadata |->
        IF k \in DOMAIN metadata THEN metadata[k] ELSE status]

\* _update_transfer_status: the table after the call. Any error of
\* update_item is caught and logged, the call returns normally.
_update_transfer_status(table, transfer_id, status, metadata, store) ==
    IF store = "ok"
    THEN LET values == expr_values(status, metadata)
             item == ItemOf(table, transfer_id)
         IN  [t \in DOMAIN table \cup {transfer_id} |->
                 IF t = transfer_id
                 THEN [k \in DOMAIN item |->
                         IF k \in DOMAIN values THEN values[k] ELSE item[k]]
                 ELSE table[t]]
    ELSE table

NoXfer == [pc |-> "none"]

\* stream_s3_to_ftp is called; the retry policy starts attempt 1.
StreamCall ==
    /\ xfer.pc = "none"
    /\ \E protocol \in Protocols :
         xfer' = [pc |-> "attempt", protocol |-> protocol,
                  attempt_number |-> 1, outcome |-> "none",
                  errors |-> << >>, ret |-> "none"]
    /\ UNCHANGED <<transfers, hf>>
    /\ UNCHANGED exceptTransfer

\* The try body of one attempt: head_object and the _stream_to_* routine of
\* the protocol; it yields a result or raises.
StreamAttempt ==
    /\ xfer.pc = "attempt"
    /\ \E o \in {"ok"} \cup StreamFailures :
         xfer' = [xfer EXCEPT
             !.pc = "record",
             !.outcome = o,
             !.errors = IF o = "ok" THEN @ ELSE Append(@, o)]
    /\ UNCHANGED <<transfers, hf>>
    /\ UNCHANGED exceptTransfer

\* The status write that ends the attempt, then the return of the result
\* or the re-raise; the retry policy retries on every exception until the
\* attempt number reaches stop_after_attempt, then raises RetryError.
StreamRecord ==
    /\ xfer.pc = "record"
    /\ \E store \in StoreOutcomes :
         IF xfer.outcome = "ok"
         THEN /\ transfers' = _update_transfer_status(transfers, StreamId,
                     "completed", [status |-> "success"], store)
              /\ xfer' = [xfer EXCEPT !.pc = "done", !.ret = "result"]
         ELSE /\ transfers' = _update_transfer_status(transfers, StreamId,
                     "failed", [error |-> xfer.outcome], store)
              /\ IF xfer.attempt_number >= stop_after_attempt
                 THEN xfer' = [xfer EXCEPT !.pc = "done",
                                           !.ret = "RetryError"]
                 ELSE xfer' = [xfer EXCEPT !.pc = "attempt",
                                           !.attempt_number = @ + 1]
    /\ UNCHANGED hf
    /\ UNCHANGED exceptTransfer

NoFailure == [action |-> "none"]
\* The caller's record before the first failure: retry_count starts at 0.
FirstFailure == [retry_count |-> 0, calls |-> 0, retries |-> 0,
                 action |-> "none", error |-> "none", errors |-> {}]

handle_transfer_failure(retry_count) ==
    IF retry_count < max_retries
    THEN [action |-> "retry", retry_count |-> retry_count + 1,
          status |-> "retrying",
          metadata |-> [retry_count |-> retry_count + 1]]
    ELSE [action |-> "failed", retry_count |-> retry_count,
          status |-> "failed",
          metadata |-> [retry_count |-> retry_count,
                        final_failure |-> TRUE]]

\* An attempt of the transfer failed and the caller reports it with the
\* retry_count returned by the previous call (0 for the first).
HandleTransferFailure ==
    /\ hf.action # "failed"
    /\ \E error \in TransientFailures \cup PermanentFailures,
          store \in StoreOutcomes :
         LET cur == IF hf.action = "none" THEN FirstFailure ELSE hf
             r == handle_transfer_failure(cur.retry_count)
             metadata == [k \in DOMAIN r.metadata \cup {"error"} |->
                            IF k = "error" THEN error ELSE r.metadata[k]]
         IN  /\ transfers' = _update_transfer_status(transfers, FailureId,
                                 r.status, metadata, store)
             /\ hf' = [retry_count |-> r.retry_count,
                       calls |-> cur.calls + 1,
                       retries |-> cur.retries
                                     + (IF r.action = "retry" THEN 1 ELSE 0),
                       action |-> r.action,
                       error |-> error,
                       errors |-> cur.errors \cup {error}]
    /\ UNCHANGED xfer
    /\ UNCHANGED exceptTransfer

(***************************************************************************)
(* The operations that authenticate: FileFerryAgent.process_transfer_      *)
(* request (src/agent/fileferry_agent.py) and the tools list_s3_buckets,   *)
(* list_bucket_contents and get_file_metadata (Agenttools.py). They call   *)
(* sso_handler.authenticate and sso_handler.logout, which hand out a       *)
(* session and revoke it.                                                  *)
(***************************************************************************)
Tools == {"list_s3_buckets", "list_bucket_contents", "get_file_metadata"}
Operations == {"process_transfer_request"} \cup Tools
NoSession == 0

NoOp == [pc |-> "ended", n |-> 0]

\* How an operation ends when one of its steps raises: the tools catch the
\* exception and return an error dict, process_transfer_request tracks the
\* error and re-raises. Neither path logs out.
Failed(a) ==
    [a EXCEPT !.pc = "ended",
              !.ret = IF a.op \in Tools THEN "error" ELSE "raise"]

\* An operation is called. The list tools authenticate at once; the other
\* two have steps before it.
OpCall ==
    /\ agent.pc = "ended"
    /\ agent.n < MaxOps
    /\ \E op \in Operations :
         agent' = [op |-> op,
                   pc |-> IF op \in {"list_s3_buckets", "list_bucket_contents"}
                          THEN "auth" ELSE "pre",
                   n |-> agent.n + 1, session |-> NoSession, ret |-> "none"]
    /\ UNCHANGED active
    /\ UNCHANGED exceptAgent

\* process_transfer_request: _validate_request and the ServiceNow tickets;
\* get_file_metadata: the cache lookup, a hit returning the cached metadata
\* without authenticating.
OpPre ==
    /\ agent.pc = "pre"
    /\ IF agent.op = "get_file_metadata"
       THEN \E cached \in BOOLEAN :
              agent' = IF cached
                       THEN [agent EXCEPT !.pc = "ended", !.ret = "success"]
                       ELSE [agent EXCEPT !.pc = "auth"]
       ELSE \E r \in {"ok", "ValueError"} :
              agent' = IF r = "ok" THEN [agent EXCEPT !.pc = "auth"]
                                   ELSE Failed(agent)
    /\ UNCHANGED active
    /\ UNCHANGED exceptAgent

\* sso_handler.authenticate: a new session, or an exception.
OpAuthenticate ==
    /\ agent.pc = "auth"
    /\ \E r \in {"ok", "denied"} :
         IF r = "ok"
         THEN /\ agent' = [agent EXCEPT !.pc = "work", !.session = agent.n]
              /\ active' = active \cup {agent.n}
         ELSE /\ agent' = Failed(agent)
              /\ UNCHANGED active
    /\ UNCHANGED exceptAgent

\* The work done with the session: the S3 calls of a tool, or
\* _verify_s3_file of process_transfer_request.
OpWork ==
    /\ agent.pc = "work"
    /\ IF agent.op \in Tools
       THEN \E r \in {"ok", "ClientError", "Exception"} :
              agent' = IF r = "ok" THEN [agent EXCEPT !.pc = "logout"]
                                   ELSE Failed(agent)
       ELSE \E r \in {"ok", "FileNotFoundError"} :
              agent' = IF r = "ok" THEN [agent EXCEPT !.pc = "transfer"]
                                   ELSE Failed(agent)
    /\ UNCHANGED active
    /\ UNCHANGED exceptAgent

\* _initiate_transfer: start_transfer_async catches a failing transfer and
\* marks the job failed, so both outcomes go on to the logout.
OpTransfer ==
    /\ agent.pc = "transfer"
    /\ \E job_status \in {"completed", "failed"} :
         agent' = [agent EXCEPT !.pc = "logout"]
    /\ UNCHANGED active
    /\ UNCHANGED exceptAgent

\* sso_handler.logout(session) and the return of the success result.
OpLogout ==
    /\ agent.pc = "logout"
    /\ active' = active \ {agent.session}
    /\ agent' = [agent EXCEPT !.pc = "ended", !.ret = "success"]
    /\ UNCHANGED exceptAgent

(***************************************************************************)
(* AgentTools.predict_transfer_outcome (Agenttools.py) over the items      *)
(* query_learning_data returns for the transfer type. The items are a bag: *)
(* for each kind of record (size, outcome), how many there are. A rate is  *)
(* held in thousandths, as round(rate, 3) yields.                          *)
(***************************************************************************)
TransferTypes == {"sftp", "ftp"}
Outcomes      == {"success", "failed"}
RecordSizes   == {100 * MiB, 250 * MiB}
RecordDuration == 60          \* durationSeconds of a stored record
RecordKinds   == [fileSizeBytes : RecordSizes, outcome : Outcomes]
PredictSizes  == {10 * MiB, 250 * MiB, 400 * MiB, 1020 * MiB}

RECURSIVE CountIn(_, _)
\* number of records of the bag whose kind lies in the set kinds
CountIn(items, kinds) ==
    IF kinds = {} THEN 0
    ELSE LET k == CHOOSE k \in kinds : TRUE
         IN  items[k] + CountIn(items, kinds \ {k})

EmptyItems == [k \in RecordKinds |-> 0]
Histories ==
    {items \in [RecordKinds -> 0 .. MaxHistory] :
        CountIn(items, RecordKinds) <= MaxHistory}

\* DynamoDBManager.query_learning_data: the items of the type; a
\* ClientError is caught and gives no items, another error propagates.
query_learning_data(items, store) ==
    IF store = "ok" THEN [raised |-> FALSE, Items |-> items]
    ELSE IF store = "ClientError" THEN [raised |-> FALSE, Items |-> EmptyItems]
    ELSE [raised |-> TRUE, Items |-> EmptyItems]

\* round(n / d, 3) in thousandths, ties to even as Python rounds
Round3(n, d) ==
    LET q == (1000 * n) \div d
        r == (1000 * n) % d
    IN  IF 2 * r < d THEN q
        ELSE IF 2 * r > d THEN q + 1
        ELSE IF q % 2 = 0 THEN q ELSE q + 1

\* size_min <= fileSizeBytes <= size_max with size_min = 0.5 * size and
\* size_max = 1.5 * size
similar_kinds(file_size_bytes) ==
    {k \in RecordKinds :
        /\ 2 * k.fileSizeBytes >= file_size_bytes
        /\ k.fileSizeBytes <= file_size_bytes + file_size_bytes \div 2}

predict_transfer_outcome(file_size_bytes, response) ==
    LET learning_data == response.Items
    IN
    IF response.raised
    THEN [status |-> "error"]
    ELSE IF CountIn(learning_data, RecordKinds) < 20
    THEN [status |-> "success",
          predicted_success_rate |-> 850,
          predicted_duration_seconds |->
              Max(30, file_size_bytes \div (10 * 1024 * 1024)),
          sample_size |-> CountIn(learning_data, RecordKinds),
          confidence |-> "low"]
    ELSE LET similar == similar_kinds(file_size_bytes)
             used == IF CountIn(learning_data, similar) = 0
                     THEN RecordKinds ELSE similar
             len == CountIn(learning_data, used)
             success_count ==
                 CountIn(learning_data, {k \in used : k.outcome = "success"})
             avg_duration ==
                 IF success_count > 0
                 THEN (success_count * RecordDuration) \div success_count
                 ELSE file_size_bytes \div (10 * 1024 * 1024)
         IN  [status |-> "success",
              predicted_success_rate |-> Round3(success_count, len),
              predicted_duration_seconds |-> avg_duration,
              sample_size |-> len,
              confidence |-> IF len >= 50 THEN "high"
                             ELSE IF len >= 20 THEN "medium" ELSE "low"]

NoPrediction == [result |-> [status |-> "none"]]

PredictTransferOutcome ==
    /\ pred.result.status = "none"
    /\ \E size \in PredictSizes, transfer_type \in TransferTypes,
          items \in Histories, store \in StoreOutcomes :
         pred' = [file_size_bytes |-> size,
                  transfer_type |-> transfer_type,
                  items |-> IF store = "ok" THEN items ELSE EmptyItems,
                  result |-> predict_transfer_outcome(size,
                                 query_learning_data(items, store))]
    /\ UNCHANGED exceptPredict

(***************************************************************************)
(* store_learning_data, in its two implementations (Dynamodbmanager.py and *)
(* src/storage/dynamodb_manager.py), on the AgentLearning table whose key  *)
(* is (transferType, timestamp). A call builds its item, reading the       *)
(* clock for the timestamp, and then puts it.                              *)
(***************************************************************************)
Writers == {"w1", "w2"}
Implementations == {"Dynamodbmanager", "storage"}
LearnSizes == {5 * MiB, 50 * MiB}

\* Dynamodbmanager.py _categorize_size
_categorize_size(size_bytes) ==
    IF size_bytes < 10 * 1024 * 1024 THEN "small"
    ELSE IF size_bytes < 100 * 1024 * 1024 THEN "medium"
    ELSE IF size_bytes < 1024 * 1024 * 1024 THEN "large"
    ELSE "xlarge"

\* src/storage/dynamodb_manager.py store_learning_data, 'Categorize file
\* size'
size_category(size_bytes) ==
    IF size_bytes < 100 * 1024 * 1024 THEN "small"
    ELSE IF size_bytes < 1024 * 1024 * 1024 THEN "medium"
    ELSE "large"

NoWrite == [pc |-> "idle"]

learning_item(impl, transfer_type, size_bytes, outcome, timestamp) ==
    [transferType |-> transfer_type,
     timestamp |-> timestamp,
     fileSize |-> size_bytes,
     outcome |-> outcome,
     fileSizeCategory |-> IF impl = "Dynamodbmanager"
                          THEN _categorize_size(size_bytes)
                          ELSE size_category(size_bytes)]

Started == puts + Cardinality({w \in Writers : writer[w].pc = "put"})

\* store_learning_data is called and builds its item.
StoreBuild(w) ==
    /\ writer[w].pc = "idle"
    /\ Started < MaxCalls
    /\ \E impl \in Implementations, transfer_type \in TransferTypes,
          size_bytes \in LearnSizes, outcome \in Outcomes :
         writer' = [writer EXCEPT ![w] =
             [pc |-> "put", impl |-> impl,
              item |-> learning_item(impl, transfer_type, size_bytes,
                                     outcome, utcnow),
              ret |-> "none"]]
    /\ UNCHANGED <<learning, utcnow, puts>>
    /\ UNCHANGED exceptLearn

\* put_item: the item replaces the item of the same key, if there is one.
\* Dynamodbmanager.py catches and logs every error; the storage manager
\* catches ClientError and returns success False, other errors propagate.
StorePut(w) ==
    /\ writer[w].pc = "put"
    /\ \E store \in StoreOutcomes :
         LET item == writer[w].item
         IN  IF store = "ok"
             THEN /\ learning' =
                        {i \in learning :
                            <<i.transferType, i.timestamp>>
                              # <<item.transferType, item.timestamp>>}
                        \cup {item}
                  /\ puts' = puts + 1
                  /\ writer' = [writer EXCEPT ![w] =
                                   [pc |-> "idle", ret |-> "stored"]]
             ELSE /\ UNCHANGED <<learning, puts>>
                  /\ writer' = [writer EXCEPT ![w] =
                        [pc |-> "idle",
                         ret |-> IF writer[w].impl = "Dynamodbmanager"
                                 THEN "logged"
                                 ELSE IF store = "ClientError"
                                 THEN "success False"
                                 ELSE "raise"]]
    /\ UNCHANGED utcnow
    /\ UNCHANGED exceptLearn

\* The clock moves on.
ClockTick ==
    /\ utcnow < MaxClock
    /\ utcnow' = utcnow + 1
    /\ UNCHANGED <<learning, writer, puts>>
    /\ UNCHANGED exceptLearn

(***************************************************************************)
(* The size bucket of one object as each component assigns it: the         *)
(* strategy selection, the two store_learning_data implementations and the *)
(* lookup of predict_transfer_outcome in src/ai_agent/agent_tools.py.      *)
(***************************************************************************)

\* src/ai_agent/agent_tools.py predict_transfer_outcome, 'STEP 1:
\* Categorize file size'
lookup_size_category(file_size_bytes) ==
    IF file_size_bytes < 1024 * 1024 THEN "small"
    ELSE IF file_size_bytes < 100 * 1024 * 1024 THEN "medium"
    ELSE IF file_size_bytes < 1024 * 1024 * 1024 THEN "large"
    ELSE "very_large"

NoBuckets == [strategy |-> "none"]

\* One object goes through the components.
AssignBuckets ==
    /\ \E size \in FileSizes, dest \in DestinationTypes, user \in Users,
          transfer_type \in TransferTypes :
         buckets' =
             [size |-> size, destination_type |-> dest, user_id |-> user,
              transfer_type |-> transfer_type,
              strategy |-> analyze_transfer_request(size, dest, user).category,
              stored |-> learning_item("Dynamodbmanager", transfer_type,
                             size, "success", utcnow).fileSizeCategory,
              stored_by_storage |-> learning_item("storage", transfer_type,
                             size, "success", utcnow).fileSizeCategory,
              lookup |-> lookup_size_category(size)]
    /\ UNCHANGED exceptBuckets

(***************************************************************************)
(* The tool dispatchers: AgentTools.execute (Agenttools.py) and            *)
(* BedrockFileFerryAgent._execute_tool (src/ai_agent/                      *)
(* bedrock_fileferry_agent.py).  Both look the name up in a map of the     *)
(* nine tools and call the tool with **tool_input inside a try block.      *)
(***************************************************************************)
RegisteredTools ==
    {"list_s3_buckets", "list_bucket_contents", "get_file_metadata",
     "validate_user_access", "analyze_transfer_request",
     "predict_transfer_outcome", "create_servicenow_tickets",
     "execute_transfer", "get_transfer_history"}

\* The names a caller can pass: the registered ones, a name of no tool and
\* the empty name.
ToolNames == RegisteredTools \cup {"delete_bucket", ""}

\* tool_input: keyword arguments that fit the tool's signature, keyword
\* arguments that do not, and a value that is not a mapping.
ToolInputs == {"matching", "wrong_keywords", "not_a_mapping"}

\* What the tool does when it is called: it returns its result, it returns
\* its own error dict, or it raises an Exception.
ToolBehaviours == {"returns", "returns_error", "raises"}

Dispatchers == {"execute", "_execute_tool"}

\* tool_map[tool_name](**tool_input): the call raises TypeError before the
\* tool's body runs when the arguments do not fit.
call_tool(tool_input, behaviour) ==
    IF tool_input # "matching"
    THEN [invoked |-> FALSE, raised |-> TRUE, result |-> "TypeError"]
    ELSE IF behaviour = "raises"
    THEN [invoked |-> TRUE, raised |-> TRUE, result |-> "Exception"]
    ELSE [invoked |-> TRUE, raised |-> FALSE,
          result |-> IF behaviour = "returns" THEN "result" ELSE "error"]

\* AgentTools.execute without its try block.
execute_uncaught(tool_name, tool_input, behaviour) ==
    IF tool_name \notin RegisteredTools
    THEN [raised |-> FALSE, kind |-> "error", error |-> "Unknown tool",
          tool |-> "none", invoked |-> FALSE]
    ELSE LET r == call_tool(tool_input, behaviour)
         IN  IF r.raised
             THEN [raised |-> TRUE, kind |-> "none", error |-> r.result,
                   tool |-> "none", invoked |-> r.invoked]
             ELSE [raised |-> FALSE, kind |-> r.result, error |-> "none",
                   tool |-> "none", invoked |-> TRUE]

\* AgentTools.execute: what the caller gets.  raised says that an exception
\* left the method; tool is the 'tool' key of the dict returned.
execute(tool_name, tool_input, behaviour) ==
    IF tool_name \notin RegisteredTools
    THEN [raised |-> FALSE, kind |-> "error", error |-> "Unknown tool",
          tool |-> "none", invoked |-> FALSE]
    ELSE LET r == call_tool(tool_input, behaviour)
         IN  IF r.raised
             THEN [raised |-> FALSE, kind |-> "error", error |-> r.result,
                   tool |-> tool_name, invoked |-> r.invoked]
             ELSE [raised |-> FALSE, kind |-> r.result, error |-> "none",
                   tool |-> "none", invoked |-> TRUE]

\* BedrockFileFerryAgent._execute_tool: the same lookup and call, the whole
\* body inside the try block; its dicts have the keys 'error' and 'tool'.
_execute_tool(tool_name, tool_input, behaviour) ==
    IF tool_name \notin RegisteredTools
    THEN [raised |-> FALSE, kind |-> "error", error |-> "Unknown tool",
          tool |-> "none", invoked |-> FALSE]
    ELSE LET r == call_tool(tool_input, behaviour)
         IN  IF r.raised
             THEN [raised |-> FALSE, kind |-> "error", error |-> r.result,
                   tool |-> tool_name, invoked |-> r.invoked]
             ELSE [raised |-> FALSE, kind |-> r.result, error |-> "none",
                   tool |-> "none", invoked |-> TRUE]

Dispatch(dispatcher, tool_name, tool_input, behaviour) ==
    IF dispatcher = "execute"
    THEN execute(tool_name, tool_input, behaviour)
    ELSE _execute_tool(tool_name, tool_input, behaviour)

\* The dispatcher is called.
DispatchCall ==
    /\ disp = NoCall
    /\ \E d \in Dispatchers, name \in ToolNames, input \in ToolInputs,
          b \in ToolBehaviours :
         disp' = [pc |-> "lookup", dispatcher |-> d, tool_name |-> name,
                  tool_input |-> input, behaviour |-> b]
    /\ UNCHANGED exceptDisp

\* The lookup in the map: an unknown name returns at once.
DispatchLookup ==
    /\ disp # NoCall
    /\ disp.pc = "lookup"
    /\ disp' = IF disp.tool_name \in RegisteredTools
               THEN [disp EXCEPT !.pc = "call"]
               ELSE [pc |-> "done", dispatcher |-> disp.dispatcher,
                     tool_name |-> disp.tool_name,
                     tool_input |-> disp.tool_input,
                     behaviour |-> disp.behaviour,
                     ret |-> Dispatch(disp.dispatcher, disp.tool_name,
                                      disp.tool_input, disp.behaviour)]
    /\ UNCHANGED exceptDisp

\* The tool is called and the dispatcher returns.
DispatchTool ==
    /\ disp # NoCall
    /\ disp.pc = "call"
    /\ disp' = [pc |-> "done", dispatcher |-> disp.dispatcher,
                tool_name |-> disp.tool_name,
                tool_input |-> disp.tool_input,
                behaviour |-> disp.behaviour,
                ret |-> Dispatch(disp.dispatcher, disp.tool_name,
                                 disp.tool_input, disp.behaviour)]
    /\ UNCHANGED exceptDisp

(***************************************************************************)
(* TransferHandler._stream_to_sftp (src/handlers/transfer_handler.py): the *)
(* loop that reads the S3 body chunk by chunk, writes each chunk to the    *)
(* remote file and feeds it to the md5 object; and cancel_transfer         *)
(* (src/ai_agent/bedrock_agent.py), which stops the Step Functions         *)
(* execution.                                                              *)
(***************************************************************************)
Bytes == {0, 1}
Payloads == UNION {[1 .. n -> Bytes] : n \in 0 .. MaxPayload}
ChunkSizes == 1 .. MaxChunkSize

\* hashlib.md5(): the state of a fresh md5 object
md5_new == 0

\* checksum.update(chunk): the bytes of the chunk enter the state in order
RECURSIVE checksum_update_restart(_, _)
checksum_update_restart(h, data) ==
    IF data = << >> THEN md5_new
    ELSE md5_update(checksum_update_restart(h, SubSeq(data, 1, Len(data) - 1)),
                    data[Len(data)])

RECURSIVE checksum_update(_, _)
checksum_update(h, data) ==
    IF data = << >> THEN h
    ELSE md5_update(checksum_update(h, SubSeq(data, 1, Len(data) - 1)),
                    data[Len(data)])

\* ssh.connect, open_sftp, chdir, get_object and sftp.open: any of them can
\* raise; then the method raises before the loop.
SftpBegin ==
    /\ sftp = NoCall
    /\ \E payload \in Payloads, size \in ChunkSizes, r \in {"ok", "raise"} :
         sftp' = IF r = "ok"
                 THEN [pc |-> "loop", payload |-> payload, chunk_size |-> size,
                       pos |-> 0, remote_file |-> << >>, bytes_transferred |-> 0,
                       checksum |-> md5_new, reads |-> 0,
                       cancelled |-> FALSE, after_cancel |-> 0,
                       ret |-> "none"]
                 ELSE [pc |-> "done", payload |-> payload, chunk_size |-> size,
                       pos |-> 0, remote_file |-> << >>, bytes_transferred |-> 0,
                       checksum |-> md5_new, reads |-> 0,
                       cancelled |-> FALSE, after_cancel |-> 0,
                       ret |-> "raise"]
    /\ UNCHANGED exceptSftp

\* One turn of the loop: s3_stream.read(self.chunk_size) returns up to
\* chunk_size bytes (at least one before the end of the body), or raises;
\* remote_file.write(chunk) writes them or raises.
SftpChunk ==
    /\ sftp # NoCall
    /\ sftp.pc = "loop"
    /\ sftp.pos < Len(sftp.payload)
    /\ \E n \in 1 .. Min(sftp.chunk_size, Len(sftp.payload) - sftp.pos),
          r \in {"ok", "read raises", "write raises"} :
         LET data  == SubSeq(sftp.payload, sftp.pos + 1, sftp.pos + n)
             seen  == IF sftp.cancelled THEN sftp.after_cancel + 1
                      ELSE sftp.after_cancel
         IN  sftp' =
               IF r = "read raises"
               THEN [sftp EXCEPT !.pc = "done", !.ret = "raise",
                                 !.reads = @ + 1, !.after_cancel = seen]
               ELSE IF r = "write raises"
               THEN [sftp EXCEPT !.pc = "done", !.ret = "raise",
                                 !.pos = @ + n,
                                 !.reads = @ + 1, !.after_cancel = seen]
               ELSE [sftp EXCEPT !.pos = @ + n,
                                 !.remote_file = @ \o data,
                                 !.bytes_transferred = @ + Len(data),
                                 !.checksum = checksum_update(@, data),
                                 !.reads = @ + 1, !.after_cancel = seen]
    /\ UNCHANGED exceptSftp

\* The read at the end of the body returns b'': the loop ends, the file and
\* the connection are closed and the result is returned.
SftpReturn ==
    /\ sftp # NoCall
    /\ sftp.pc = "loop"
    /\ sftp.pos = Len(sftp.payload)
    /\ sftp' = [sftp EXCEPT !.pc = "done", !.ret = "success"]
    /\ UNCHANGED exceptSftp

\* cancel_transfer while the transfer runs: stop_execution succeeds.  No
\* statement of _stream_to_sftp reads anything that cancel_transfer sets.
SftpCancel ==
    /\ sftp # NoCall
    /\ sftp.pc = "loop"
    /\ ~sftp.cancelled
    /\ sftp' = [sftp EXCEPT !.cancelled = TRUE]
    /\ UNCHANGED exceptSftp

(***************************************************************************)
(* TransferService.start_transfer_async (src/services/transfer_service.py) *)
(* on a TransferJob, with its collaborators the monitoring service, the    *)
(* S3 handler, the transfer handler and the notification service, each of  *)
(* which returns or raises; then FileFerryAgent._monitor_and_notify        *)
(* (src/agent/fileferry_agent.py) on the same job.                         *)
(***************************************************************************)
JobDestinationTypes == {"sftp", "ftp", "ftps"}
CallOutcomes == {"ok", "raise"}

\* TransferJob.__init__: self.status = "Pending"
NewJob(destination_type) ==
    [pc |-> "track_job_start", destination_type |-> destination_type,
     status |-> "Pending", statuses |-> << >>, error_message |-> "none",
     transfer |-> "none", notifications |-> << >>, ticket_updates |-> << >>,
     ret |-> "none", monitor |-> "none"]

\* transfer_job.status = s
set_status(j, s) ==
    [j EXCEPT !.status = s, !.statuses = Append(@, s)]

\* The except branch without its first statement.
mark_failed_skipped(j, e) == [j EXCEPT !.error_message = e]

\* except Exception as e: transfer_job.status = 'failed';
\* transfer_job.error_message = str(e)
mark_failed(j, e) == [set_status(j, "failed") EXCEPT !.error_message = e]

\* send_notification(transfer_job, text): the notification goes out
send_notification(j, what) == [j EXCEPT !.notifications = Append(@, what)]

JobBegin ==
    /\ job = NoCall
    /\ \E d \in JobDestinationTypes : job' = NewJob(d)
    /\ UNCHANGED exceptJob

\* await self.monitoring_service.track_job_start(transfer_job), outside the
\* try block; then status = 'in_progress'
JobTrackStart ==
    /\ job # NoCall
    /\ job.pc = "track_job_start"
    /\ \E r \in CallOutcomes :
         job' = IF r = "ok"
                THEN [set_status(job, "in_progress") EXCEPT !.pc = "transfer"]
                ELSE [job EXCEPT !.pc = "returned", !.ret = "raise"]
    /\ UNCHANGED exceptJob

\* The try block up to the upload: get_file_stream, then upload_file_async
\* for 'sftp' and 'ftp' (no branch for any other destination type).  On
\* success status = 'completed'; an exception enters the except branch.
JobTransfer ==
    /\ job # NoCall
    /\ job.pc = "transfer"
    /\ \E stream \in CallOutcomes, upload \in CallOutcomes :
         LET failed == stream = "raise"
                       \/ (job.destination_type \in {"sftp", "ftp"}
                              /\ upload = "raise")
         IN  job' = IF failed
                    THEN [mark_failed(job, "transfer") EXCEPT
                              !.pc = "notify_failed", !.transfer = "raise"]
                    ELSE [set_status(job, "completed") EXCEPT
                              !.pc = "track_job_completion",
                              !.transfer = "ok"]
    /\ UNCHANGED exceptJob

\* await self.monitoring_service.track_job_completion(transfer_job), inside
\* the try block
JobTrackCompletion ==
    /\ job # NoCall
    /\ job.pc = "track_job_completion"
    /\ \E r \in CallOutcomes :
         job' = IF r = "ok"
                THEN [job EXCEPT !.pc = "notify_completed"]
                ELSE [mark_failed(job, "track_job_completion") EXCEPT
                          !.pc = "notify_failed"]
    /\ UNCHANGED exceptJob

\* await self.notification_service.send_notification(transfer_job,
\* "Transfer completed successfully."), inside the try block: the call sends
\* the notification; it or the await of its value can raise.
JobNotifyCompleted ==
    /\ job # NoCall
    /\ job.pc = "notify_completed"
    /\ \E r \in CallOutcomes :
         LET sent == send_notification(job, "completed")
         IN  job' = IF r = "ok"
                    THEN [sent EXCEPT !.pc = "returned", !.ret = "None"]
                    ELSE [mark_failed(sent, "send_notification") EXCEPT
                              !.pc = "notify_failed"]
    /\ UNCHANGED exceptJob

\* The except branch after the status is set: send_notification(...,
\* "Transfer failed: ..."); what it raises leaves the method.
JobNotifyFailed ==
    /\ job # NoCall
    /\ job.pc = "notify_failed"
    /\ \E r \in CallOutcomes :
         LET sent == send_notification(job, "failed")
         IN  job' = IF r = "ok"
                    THEN [sent EXCEPT !.pc = "track_job_failure"]
                    ELSE [sent EXCEPT !.pc = "returned", !.ret = "raise"]
    /\ UNCHANGED exceptJob

\* await self.monitoring_service.track_job_failure(transfer_job, str(e)),
\* the last statement of the except branch
JobTrackFailure ==
    /\ job # NoCall
    /\ job.pc = "track_job_failure"
    /\ \E r \in CallOutcomes :
         job' = [job EXCEPT !.pc = "returned",
                            !.ret = IF r = "ok" THEN "None" ELSE "raise"]
    /\ UNCHANGED exceptJob

\* _monitor_and_notify once the status is 'completed' or 'failed': the Teams
\* notification, the update of the user ticket, the update of the
\* assignment ticket; each is awaited once and what it raises ends the task.
JobMonitor ==
    /\ job # NoCall
    /\ job.pc = "returned"
    /\ job.status \in {"completed", "failed"}
    /\ \E teams \in CallOutcomes, user \in CallOutcomes,
          assignment \in CallOutcomes :
         job' = [job EXCEPT
                   !.pc = "monitored",
                   !.ticket_updates =
                       IF teams = "raise" THEN << >>
                       ELSE IF user = "raise" THEN <<"user_ticket">>
                       ELSE <<"user_ticket", "assignment_ticket">>,
                   !.monitor = IF "raise" \in {teams, user, assignment}
                               THEN "raise" ELSE "None"]
    /\ UNCHANGED exceptJob

(***************************************************************************)
(* The session-gated tools of src/ai_agent/agent_tools.py: each one calls  *)
(* is_session_valid first, then get_session_credentials, then does its     *)
(* work.  The steps of one call interleave with the clock, the table's     *)
(* TTL collection, logins and logouts.                                     *)
(***************************************************************************)
GatedTools == {"list_s3_buckets", "list_bucket_contents", "get_file_metadata",
               "validate_user_access", "execute_transfer"}

\* except Exception as e: the tool's error result; execute_transfer first
\* tries update_transfer_status(transfer_id, "failed") and ignores its error
tool_except(g) ==
    [g EXCEPT !.pc = "done", !.ret = "ERROR",
              !.status_writes = IF g.tool = "execute_transfer"
                                THEN Append(@, "failed") ELSE @]

\* The step after the session check with the test of its value left out.
after_session_check_ignored(g, valid) ==
    IF valid = "raise" THEN tool_except([g EXCEPT !.valid = valid])
    ELSE [g EXCEPT !.valid = valid,
                   !.pc = IF g.tool = "get_file_metadata" THEN "cache"
                          ELSE "credentials"]

\* if not self.sso_handler.is_session_valid(session_token): return the
\* SESSION_EXPIRED result
after_session_check(g, valid) ==
    IF valid = "raise" THEN tool_except([g EXCEPT !.valid = valid])
    ELSE IF valid = "False"
    THEN [g EXCEPT !.valid = valid, !.pc = "done", !.ret = "SESSION_EXPIRED"]
    ELSE [g EXCEPT !.valid = valid,
                   !.pc = IF g.tool = "get_file_metadata" THEN "cache"
                          ELSE "credentials"]

\* SSOHandler.get_session_credentials: its is_session_valid check, then its
\* own get_item
get_session_credentials(tok, check, read) ==
    LET valid == is_session_valid(tok, check)
    IN  IF valid = "raise" THEN "raise"
        ELSE IF valid = "False" THEN "None"
        ELSE ReadCredentials(tok, read)

GateCall ==
    /\ gate = NoCall
    /\ \E tool \in GatedTools, tok \in TokenArgs :
         gate' = [pc |-> "check", tool |-> tool, tok |-> tok,
                  valid |-> "none", credentials |-> "none", s3_calls |-> 0,
                  cache_writes |-> 0, stored |-> FALSE,
                  status_writes |-> << >>, workflow |-> "none",
                  ret |-> "none"]
    /\ UNCHANGED exceptGate

\* STEP 1 of every gated tool
GateCheck ==
    /\ gate # NoCall
    /\ gate.pc = "check"
    /\ \E outcome \in StoreOutcomes :
         gate' = after_session_check(gate, is_session_valid(gate.tok, outcome))
    /\ UNCHANGED exceptGate

\* get_file_metadata: the lookup in the S3FileCache table
GateCache ==
    /\ gate # NoCall
    /\ gate.pc = "cache"
    /\ \E r \in {"hit", "miss", "raise"} :
         gate' = IF r = "raise" THEN tool_except(gate)
                 ELSE IF r = "hit"
                 THEN [gate EXCEPT !.pc = "done", !.ret = "success"]
                 ELSE [gate EXCEPT !.pc = "credentials"]
    /\ UNCHANGED exceptGate

\* credentials = self.sso_handler.get_session_credentials(session_token);
\* only list_s3_buckets tests the value
GateCreds ==
    /\ gate # NoCall
    /\ gate.pc = "credentials"
    /\ \E check \in StoreOutcomes, read \in StoreOutcomes :
         LET c == get_session_credentials(gate.tok, check, read)
         IN  gate' = IF c = "raise" THEN tool_except(gate)
                     ELSE IF c = "None" /\ gate.tool = "list_s3_buckets"
                     THEN [gate EXCEPT !.pc = "done", !.credentials = c,
                                       !.ret = "CREDENTIALS_ERROR"]
                     ELSE [gate EXCEPT !.pc = "work", !.credentials = c]
    /\ UNCHANGED exceptGate

\* The S3 call of the four read tools, and the cache write of
\* get_file_metadata
GateRead ==
    /\ gate # NoCall
    /\ gate.pc = "work"
    /\ gate.tool # "execute_transfer"
    /\ \E s3 \in CallOutcomes, put \in CallOutcomes :
         LET called == [gate EXCEPT !.s3_calls = @ + 1]
         IN  gate' = IF s3 = "raise" THEN tool_except(called)
                     ELSE IF gate.tool # "get_file_metadata"
                     THEN [called EXCEPT !.pc = "done", !.ret = "success"]
                     ELSE IF put = "raise" THEN tool_except(called)
                     ELSE [called EXCEPT !.pc = "done", !.ret = "success",
                                         !.cache_writes = @ + 1]
    /\ UNCHANGED exceptGate

\* execute_transfer STEP 3 to 5: store_transfer_request,
\* start_transfer_workflow(credentials=credentials),
\* update_transfer_status(transfer_id, "in_progress")
GateTransfer ==
    /\ gate # NoCall
    /\ gate.pc = "work"
    /\ gate.tool = "execute_transfer"
    /\ \E store \in CallOutcomes, start \in CallOutcomes,
          update \in CallOutcomes :
         LET stored  == [gate EXCEPT !.stored = TRUE]
             started == [stored EXCEPT !.workflow = gate.credentials]
         IN  gate' = IF store = "raise" THEN tool_except(gate)
                     ELSE IF start = "raise" THEN tool_except(stored)
                     ELSE IF update = "raise" THEN tool_except(started)
                     ELSE [started EXCEPT
                             !.pc = "done", !.ret = "success",
                             !.status_writes = Append(@, "in_progress")]
    /\ UNCHANGED exceptGate

(***************************************************************************)
(* BedrockFileFerryAgent._call_bedrock (src/ai_agent/bedrock_agent.py):    *)
(* invoke_model, and when the model stops with 'tool_use', _execute_tools  *)
(* and the recursive call on the grown message list.  The model's answer   *)
(* is an input of every call.  The code has no counter of its own; the     *)
(* model counts the calls and the messages up to MaxModelCalls and         *)
(* MaxMessages and keeps the count there.                                  *)
(***************************************************************************)
ModelResponses == {"end_turn", "max_tokens", "tool_use", "ClientError",
                   "Exception"}
ToolUseBlocks == 1 .. 2

BedrockRequest ==
    /\ bedrock = NoCall
    /\ \E history \in 1 .. 2 :
         bedrock' = [pc |-> "invoke", calls |-> 0, messages |-> history,
                     blocks |-> 0, tool_errors |-> 0, stop_reason |-> "none",
                     ret |-> "none"]
    /\ UNCHANGED exceptBedrock

\* response = self.bedrock_runtime.invoke_model(...); the two except
\* branches log and re-raise; a stop reason other than 'tool_use' returns
\* the text of the response
BedrockInvoke ==
    /\ bedrock # NoCall
    /\ bedrock.pc = "invoke"
    /\ \E response \in ModelResponses, blocks \in ToolUseBlocks :
         LET called == [bedrock EXCEPT
                          !.calls = Min(@ + 1, MaxModelCalls)]
         IN  bedrock' =
               IF response \in {"ClientError", "Exception"}
               THEN [called EXCEPT !.pc = "done", !.ret = "raise",
                                   !.stop_reason = "none"]
               ELSE IF response = "tool_use"
               THEN [called EXCEPT !.pc = "tools", !.blocks = blocks,
                                   !.stop_reason = response]
               ELSE [called EXCEPT !.pc = "done", !.ret = "content",
                                   !.stop_reason = response]
    /\ UNCHANGED exceptBedrock

\* tool_results = await self._execute_tools(response_body, user_context):
\* one result per tool_use block, an error result for a tool that raised;
\* the two appends; return await self._call_bedrock(messages, user_context)
BedrockTools ==
    /\ bedrock # NoCall
    /\ bedrock.pc = "tools"
    /\ \E errors \in 0 .. bedrock.blocks :
         bedrock' = [bedrock EXCEPT
                       !.pc = "invoke",
                       !.tool_errors = errors,
                       !.messages = Min(@ + 2, MaxMessages)]
    /\ UNCHANGED exceptBedrock

ExecIdle ==
    /\ ftp = NoFtp
    /\ transfers = NoTransfers
    /\ xfer = NoXfer
    /\ hf = NoFailure
    /\ agent = NoOp
    /\ active = {}
    /\ pred = NoPrediction
    /\ learning = {}
    /\ writer = [w \in Writers |-> NoWrite]
    /\ utcnow = 0
    /\ puts = 0
    /\ buckets = NoBuckets
    /\ disp = NoCall
    /\ sftp = NoCall
    /\ job = NoCall
    /\ gate = NoCall
    /\ bedrock = NoCall

InitSSO ==
    /\ sessions = {}
    /\ now = 0
    /\ nextTok = 0
    /\ test_mode \in BOOLEAN
    /\ call = [p \in Callers |-> Idle]
    /\ consumed = {}
    /\ cred = NoRead
    /\ last = Other("init", << >>, NoTok, "none", "ok")

Init ==
    /\ InitSSO
    /\ file_size = 0
    /\ strategy = NoStrategy
    /\ chunk = NoChunk
    /\ ExecIdle

Next ==
    \/ \E p \in Callers : AuthScan(p)
    \/ \E p \in Callers : AuthStore(p)
    \/ IsSessionValid
    \/ GetCredsCheck
    \/ GetCredsRead
    \/ AutoLogout
    \/ CleanupLambda
    \/ AuthSsoLambda
    \/ Tick
    \/ TTLExpire

Spec == Init /\ [][Next]_vars

(***************************************************************************)
(* Strategy selection over the bounded set of object sizes.                *)
(***************************************************************************)
SSOIdle ==
    /\ sessions = {}
    /\ now = 0
    /\ nextTok = 0
    /\ test_mode = FALSE
    /\ call = [p \in Callers |-> Idle]
    /\ consumed = {}
    /\ cred = NoRead
    /\ last = Other("init", << >>, NoTok, "none", "ok")

InitStrategy ==
    /\ SSOIdle
    /\ file_size = 0
    /\ strategy = NoStrategy
    /\ chunk = NoChunk
    /\ ExecIdle

NextStrategy ==
    \/ Analyze

SpecStrategy == InitStrategy /\ [][NextStrategy]_vars

(***************************************************************************)
(* The chunked transfer over the bounded set of object sizes.              *)
(***************************************************************************)
InitChunk ==
    /\ SSOIdle
    /\ file_size \in ChunkFileSizes
    /\ strategy = NoStrategy
    /\ chunk = NoChunk
    /\ ExecIdle

NextChunk ==
    \/ ChunkBegin
    \/ ChunkRead
    \/ ChunkReturn

SpecChunk == InitChunk /\ [][NextChunk]_vars

(***************************************************************************)
(* The transfer_ftp lambda over the bounded object bodies.                 *)
(***************************************************************************)
AllIdle ==
    /\ SSOIdle
    /\ file_size = 0
    /\ strategy = NoStrategy
    /\ chunk = NoChunk
    /\ ExecIdle

NextFtp ==
    \/ FtpBegin
    \/ FtpConnect
    \/ FtpCwd
    \/ FtpGetObject
    \/ FtpStoreBlock
    \/ FtpReturn

SpecFtp == AllIdle /\ [][NextFtp]_vars

(***************************************************************************)
(* The transfer handler: one streamed transfer under the retry policy, and  *)
(* one transfer whose failures are reported to handle_transfer_failure.    *)
(***************************************************************************)
NextStream ==
    \/ StreamCall
    \/ StreamAttempt
    \/ StreamRecord

SpecStream == AllIdle /\ [][NextStream]_vars

NextFailure ==
    \/ HandleTransferFailure

SpecFailure == AllIdle /\ [][NextFailure]_vars

(***************************************************************************)
(* A run of up to MaxOps agent operations, one after the other.            *)
(***************************************************************************)
NextAgent ==
    \/ OpCall
    \/ OpPre
    \/ OpAuthenticate
    \/ OpWork
    \/ OpTransfer
    \/ OpLogout

SpecAgent == AllIdle /\ [][NextAgent]_vars

(***************************************************************************)
(* One prediction over the bounded histories and object sizes.             *)
(***************************************************************************)
NextPredict ==
    \/ PredictTransferOutcome

SpecPredict == AllIdle /\ [][NextPredict]_vars

(***************************************************************************)
(* Two concurrent writers of the outcome history.                          *)
(***************************************************************************)
NextLearning ==
    \/ \E w \in Writers : StoreBuild(w)
    \/ \E w \in Writers : StorePut(w)
    \/ ClockTick

SpecLearning == AllIdle /\ [][NextLearning]_vars

(***************************************************************************)
(* The bucket assignment over the bounded set of object sizes.             *)
(***************************************************************************)
NextBuckets ==
    \/ AssignBuckets

SpecBuckets == AllIdle /\ [][NextBuckets]_vars

(***************************************************************************)
(* One call of a tool dispatcher.                                          *)
(***************************************************************************)
NextDispatch ==
    \/ DispatchCall
    \/ DispatchLookup
    \/ DispatchTool

SpecDispatch == AllIdle /\ [][NextDispatch]_vars

(***************************************************************************)
(* One _stream_to_sftp call over the bounded payloads and chunk sizes.     *)
(***************************************************************************)
NextSftp ==
    \/ SftpBegin
    \/ SftpChunk
    \/ SftpReturn
    \/ SftpCancel

SpecSftp == AllIdle /\ [][NextSftp]_vars

(***************************************************************************)
(* One transfer job through start_transfer_async and _monitor_and_notify.  *)
(***************************************************************************)
NextJob ==
    \/ JobBegin
    \/ JobTrackStart
    \/ JobTransfer
    \/ JobTrackCompletion
    \/ JobNotifyCompleted
    \/ JobNotifyFailed
    \/ JobTrackFailure
    \/ JobMonitor

SpecJob == AllIdle /\ [][NextJob]_vars

(***************************************************************************)
(* One gated tool call beside the session lifecycle, with one caller of     *)
(* authenticate_user.                                                      *)
(***************************************************************************)
GateCaller == CHOOSE p \in Callers : TRUE

NextGate ==
    \/ AuthScan(GateCaller)
    \/ AuthStore(GateCaller)
    \/ AutoLogout
    \/ Tick
    \/ TTLExpire
    \/ GateCall
    \/ GateCheck
    \/ GateCache
    \/ GateCreds
    \/ GateRead
    \/ GateTransfer

SpecGate == AllIdle /\ [][NextGate]_vars

(***************************************************************************)
(* One request through _call_bedrock.  The coroutine is always resumed:    *)
(* weak fairness on its steps; which answer the model gives is not         *)
(* constrained.                                                            *)
(***************************************************************************)
NextBedrock ==
    \/ BedrockRequest
    \/ BedrockInvoke
    \/ BedrockTools

SpecBedrock == AllIdle /\ [][NextBedrock]_vars /\ WF_vars(NextBedrock)

(***************************************************************************)
(* Properties of the session lifecycle.                                    *)
(***************************************************************************)

\* C1: a request id authenticates at most once: while the session record of
\* a request id exists, no further authentication (authenticate_user or the
\* auth_sso lambda) creates a second session record for it.
C1_SingleSessionPerRequest ==
    \A r \in Requests : Cardinality(ItemsOf(r)) <= 1

\* C2: of two authenticate_user calls with the same request id that run
\* concurrently, at most one returns a session token: a call during which
\* the other one stored its session does not return a token.
C2_ConcurrentAuthSerialized ==
    (last.op = "authenticate_user" /\ last.raced) => last.ret # "token"

\* C3: a request id whose session was created and then removed (logout,
\* cleanup lambda, TTL garbage collection) never authenticates again:
\* authenticate_user with it fails.
C3_ConsumedRequestRejected ==
    (last.op = "authenticate_user" /\ last.was)
        => last.ret = "SSOAuthenticationError"

\* The session of a token is live: its record exists and the current time is
\* strictly before creation time + session_duration.
LiveSession(tok) ==
    \E s \in sessions :
        s.token = tok /\ now < s.created_at + session_duration

\* C4: is_session_valid(token) returns true only if a record with that token
\* exists and now < ttl = creation time + session_duration, and when the
\* lookup answers it returns true exactly in that case; so it returns false
\* for an expired record the store has not yet collected.
C4_ValidIffLive ==
    last.op = "is_session_valid" =>
        /\ last.ret = "True" => LiveSession(last.tok)
        /\ last.fault = "ok" =>
              /\ last.ret \in {"True", "False"}
              /\ last.ret = "True" <=> LiveSession(last.tok)

C4_Witness ==
    /\ last.op = "is_session_valid"
    /\ last.fault = "ok"
    /\ HasItem(last.tok)
    /\ now >= Item(last.tok).ttl
    /\ last.ret = "False"

\* C5: is_session_valid fails closed: whatever way the lookup fails, the call
\* returns false, never true and never an uncaught error.
C5_FailsClosed ==
    last.op = "is_session_valid" =>
        /\ last.ret \in {"True", "False"}
        /\ last.fault # "ok" => last.ret = "False"

\* C6: get_session_credentials returns credentials only for a session that
\* is valid at the moment the credentials are read, also when the clock
\* passes the ttl between the validity check and the second read.
C6_CredentialsOnlyWhileLive ==
    (last.op = "get_session_credentials" /\ last.ret = "credentials")
        => LiveSession(last.tok)

\* C7: revocation is an idempotent deletion: a call of auto_logout or of the
\* cleanup lambda's invalidation, on an existing or a missing token, never
\* raises and leaves the store without a record of that token.
C7_RevocationIdempotent ==
    last.op \in {"auto_logout", "cleanup"} =>
        /\ last.ret # "raise"
        /\ ~HasItem(last.tok)

\* The request ids the validation rejects: outside test mode, the empty id
\* and every id that starts neither with REQ nor with INC.
RejectedByValidation(req) ==
    /\ ~test_mode
    /\ \/ req = << >>
       \/ /\ ~StartsWith(req, <<"R", "E", "Q">>)
          /\ ~StartsWith(req, <<"I", "N", "C">>)

\* C8: authentication is fail-secure: when the store fails during the
\* 'already used' scan or during put_item, or the request id is rejected by
\* validation, authenticate_user raises SSOAuthenticationError, returns no
\* token and writes no session record (neither does its scan step).
C8_AuthFailSecure ==
    [][ /\ (/\ last'.op = "authenticate_user"
            /\ \/ last'.fault \in {"ClientError", "BotoCoreError"}
               \/ RejectedByValidation(last'.req))
           => (/\ last'.ret = "SSOAuthenticationError"
               /\ last'.tok = NoTok
               /\ sessions' = sessions)
        /\ last'.op = "authenticate_user_scan"
           => (last'.fault = "ok" /\ sessions' = sessions) ]_vars

C8_Witness ==
    /\ last.op = "authenticate_user"
    /\ last.fault \in {"ClientError", "BotoCoreError"}
    /\ last.ret = "SSOAuthenticationError"
    /\ sessions # {}

(***************************************************************************)
(* Properties of the strategy selection and of the chunked transfer.       *)
(***************************************************************************)

\* The table of tiers: chunk size in MiB (0: no chunking), parallelism,
\* compression, risk.
TierOf(s) ==
    IF s < 10 * MiB THEN <<0, 1, FALSE, "low">>
    ELSE IF s < 100 * MiB THEN <<10, 4, TRUE, "low">>
    ELSE IF s < 1024 * MiB THEN <<20, 8, TRUE, "medium">>
    ELSE <<50, 16, TRUE, "high">>

CeilDiv(a, b) == (a + b - 1) \div b

\* C10: the byte ranges a completed chunked transfer has read are
\* ceil(size / chunk_size) contiguous ranges, range i starting at
\* i * chunk_size, without overlap or gap, their lengths summing to the
\* object size.
C10_ChunksCoverObject ==
    (chunk.pc = "done" /\ chunk.result.status = "completed") =>
        LET cs == chunk.chunks_completed
        IN  /\ Len(cs) = CeilDiv(file_size, chunk_size)
            /\ \A k \in 1 .. Len(cs) :
                  /\ cs[k].start_byte = (k - 1) * chunk_size
                  /\ cs[k].size = cs[k].end_byte - cs[k].start_byte + 1
                  /\ k < Len(cs) => cs[k + 1].start_byte = cs[k].end_byte + 1
            /\ SumSizes(cs) = file_size
            /\ chunk.result.bytes_transferred = file_size

\* C11: a chunked transfer that returns status 'completed' has transferred
\* every chunk of the object: the number of chunks completed equals the
\* total number of chunks and the bytes transferred equal the object size.
C11_CompletedOnlyWhenWhole ==
    (chunk.pc = "done" /\ chunk.result.status = "completed") =>
        /\ chunk.result.chunks_completed = chunk.result.total_chunks
        /\ chunk.result.bytes_transferred = file_size

(***************************************************************************)
(* Properties of the transfer execution.                                   *)
(***************************************************************************)

\* C12: when the source checksum is available and the checksum accumulated
\* over the transferred bytes differs from it, the transfer_ftp lambda does
\* not report status 'completed'.
C12_MismatchIsFailure ==
    (/\ ftp.pc = "done"
     /\ ftp.md5_checksum # NoChecksum
     /\ ftp.i = Len(ftp.body)
     /\ ftp.checksum # ftp.md5_checksum)
        => ftp.result.status # "completed"

\* C13: when every attempt of a transfer fails transiently, the transfer is
\* retried exactly 3 times after the first attempt and then ends failed,
\* the failure recorded in the store as final: for stream_s3_to_ftp under
\* its retry policy and for handle_transfer_failure driven with its own
\* returned retry_count.
C13_RetryCap ==
    /\ (/\ xfer.pc = "done"
        /\ xfer.ret = "RetryError"
        /\ \A k \in 1 .. Len(xfer.errors) :
              xfer.errors[k] \in TransientFailures)
          => /\ Len(xfer.errors) = 1 + 3
             /\ ItemOf(transfers, StreamId).status = "failed"
             /\ ItemOf(transfers, StreamId).final_failure
    /\ (hf.action = "failed" /\ hf.errors \subseteq TransientFailures)
          => /\ hf.retries = 3
             /\ hf.calls = 1 + 3
             /\ ItemOf(transfers, FailureId).status = "failed"
             /\ ItemOf(transfers, FailureId).final_failure

\* C14: a permanent failure ends the transfer at the attempt that met it: no
\* further attempt of stream_s3_to_ftp follows it and
\* handle_transfer_failure answers it with no retry.
C14_PermanentNotRetried ==
    /\ xfer.pc # "none" =>
          \A k \in 1 .. Len(xfer.errors) :
              xfer.errors[k] \in PermanentFailures
                 => (xfer.attempt_number = k
                     /\ xfer.pc \in {"record", "done"})
    /\ hf.action = "retry" => hf.error \in TransientFailures

\* C15: when stream_s3_to_ftp has returned its result or raised, the stored
\* status of the transfer is the outcome returned: 'completed' after a
\* result, 'failed' with the last error after the retries are exhausted.
C15_OutcomeRecordedBeforeReturn ==
    xfer.pc = "done" =>
        LET item == ItemOf(transfers, StreamId)
        IN  /\ xfer.ret = "result" => item.status = "completed"
            /\ xfer.ret = "RetryError" =>
                  /\ item.status = "failed"
                  /\ item.error = xfer.errors[Len(xfer.errors)]

\* C16: an operation that obtained a session has logged it out when it
\* ends, whether it returns a result, returns an error or raises: no
\* session obtained by an ended operation is still active.
C16_SessionRevokedAtEnd ==
    (agent.pc = "ended" /\ agent.n > 0 /\ agent.session # NoSession)
        => agent.session \notin active

(***************************************************************************)
(* Properties of the prediction and of the outcome history.                *)
(***************************************************************************)

\* C17: the prediction uses the records within +-50% of the object size,
\* or all records of the protocol when fewer than 20 are within it, the
\* confidence then being low; the success rate is the successes among the
\* records used divided by their number (20 records within the range, 12
\* of them successful: 0.60, confidence medium).
C17_PredictionFromSimilar ==
    (pred.result.status = "success" /\ pred.items # EmptyItems) =>
        LET similar == similar_kinds(pred.file_size_bytes)
            n_similar == CountIn(pred.items, similar)
            used == IF n_similar < 20 THEN RecordKinds ELSE similar
            n_used == CountIn(pred.items, used)
            successes ==
                CountIn(pred.items, {k \in used : k.outcome = "success"})
        IN  /\ pred.result.sample_size = n_used
            /\ pred.result.predicted_success_rate = Round3(successes, n_used)
            /\ pred.result.confidence =
                  (IF n_similar < 20 THEN "low"
                   ELSE IF n_similar >= 50 THEN "high" ELSE "medium")

\* C18: with an empty history the prediction is the fixed estimate: success
\* rate 0.85, duration size / (10 MiB per second), confidence low, for
\* every object size.
C18_EmptyHistoryEstimate ==
    (pred.result.status = "success" /\ pred.items = EmptyItems) =>
        /\ pred.result.predicted_success_rate = 850
        /\ pred.result.predicted_duration_seconds * (10 * MiB)
              = pred.file_size_bytes
        /\ pred.result.confidence = "low"

\* C19: the history is append-only under concurrent writers: every
\* store_learning_data call whose put succeeded has its own record, so the
\* number of records is the number of such calls and none was overwritten.
C19_HistoryAppendOnly ==
    Cardinality(learning) = puts

\* The fixed tiers of the size buckets.
BucketOf(s) ==
    IF s < 10 * MiB THEN "small"
    ELSE IF s < 100 * MiB THEN "medium"
    ELSE IF s < 1024 * MiB THEN "large"
    ELSE "xlarge"

\* C20: for every object size the bucket used by the strategy selection,
\* the bucket stored with a history record by either store_learning_data
\* and the bucket used for the prediction lookup are the same, the bucket
\* of the fixed tiers.
C20_SameBucketsEverywhere ==
    buckets.strategy # "none" =>
        /\ buckets.strategy = BucketOf(buckets.size)
        /\ buckets.stored = BucketOf(buckets.size)
        /\ buckets.stored_by_storage = BucketOf(buckets.size)
        /\ buckets.lookup = BucketOf(buckets.size)

(***************************************************************************)
(* Properties of the tool dispatcher.                                      *)
(***************************************************************************)

\* C21: a dispatcher call never lets an exception out: it returns a dict;
\* for a name that is not a registered tool the dict is an error and no
\* tool was called; when the call of the tool raised, the dict is an error
\* that names the tool.
C21_DispatcherNeverRaises ==
    (disp # NoCall /\ disp.pc = "done") =>
        /\ ~disp.ret.raised
        /\ disp.ret.kind \in {"result", "error"}
        /\ disp.tool_name \notin RegisteredTools =>
              (disp.ret.kind = "error" /\ ~disp.ret.invoked)
        /\ (disp.tool_name \in RegisteredTools
               /\ (disp.tool_input # "matching" \/ disp.behaviour = "raises"))
              => (disp.ret.kind = "error" /\ disp.ret.tool = disp.tool_name)

\* A registered tool was called with fitting arguments and raised.
C21_Witness ==
    /\ disp # NoCall
    /\ disp.pc = "done"
    /\ disp.dispatcher = "execute"
    /\ disp.tool_name = "execute_transfer"
    /\ disp.behaviour = "raises"
    /\ disp.ret.invoked

(***************************************************************************)
(* Properties of the streaming pipeline.                                   *)
(***************************************************************************)

\* C22: when _stream_to_sftp returns its result, the md5 state accumulated
\* over the chunks in read order is the md5 of the whole payload taken in
\* one pass, bytes_transferred is the length of the payload, and the remote
\* file holds the payload.
C22_ChecksumRoundTrip ==
    (sftp # NoCall /\ sftp.pc = "done" /\ sftp.ret = "success") =>
        /\ sftp.checksum = checksum_update(md5_new, sftp.payload)
        /\ sftp.bytes_transferred = Len(sftp.payload)
        /\ sftp.remote_file = sftp.payload

\* A payload of three bytes was transferred in two or more reads.
C22_Witness ==
    /\ sftp # NoCall
    /\ sftp.pc = "done"
    /\ sftp.ret = "success"
    /\ Len(sftp.payload) = 3
    /\ sftp.reads >= 2

\* C23: when the chunked transfer has returned 'completed', the destination
\* holds the bytes of every chunk, chunk i at offset i * chunk_size, whatever
\* the order in which the chunks were transferred.
C23_DestinationHoldsChunks ==
    (chunk.pc = "done" /\ chunk.result.status = "completed") =>
        \A i \in 0 .. (chunk.result.total_chunks - 1) :
            \E w \in chunk.destination :
                /\ w.offset = i * chunk_size
                /\ w.size = RangeLength(file_size, i * chunk_size,
                                        (i + 1) * chunk_size - 1)

\* C24: once cancel_transfer has stopped the execution, the transfer reads
\* and writes at most the chunk it was at, and it does not return a
\* successful result.
C24_CancelStopsTransfer ==
    (sftp # NoCall /\ sftp.cancelled) =>
        /\ sftp.after_cancel <= 1
        /\ sftp.ret # "success"

(***************************************************************************)
(* Properties of a transfer job.                                           *)
(***************************************************************************)

\* C25: when start_transfer_async is over and the job was started, exactly
\* one notification, 'completed' or 'failed', has been sent for the job; and
\* when _monitor_and_notify is over, each of the two tickets was updated
\* exactly once.
C25_OneTerminalNotification ==
    /\ (job # NoCall /\ job.pc \in {"returned", "monitored"}
           /\ job.statuses # << >>)
          => Len(job.notifications) = 1
    /\ (job # NoCall /\ job.pc = "monitored")
          => job.ticket_updates = <<"user_ticket", "assignment_ticket">>

C29_TerminalStatesAbsorbing ==
    job # NoCall =>
        \A i \in 1 .. Len(job.statuses) : \A k \in (i + 1) .. Len(job.statuses) :
            /\ job.statuses[i] = "completed" => job.statuses[k] = "completed"
            /\ job.statuses[i] = "failed" => job.statuses[k] # "completed"

(***************************************************************************)
(* Properties of the session-gated tools.                                  *)
(***************************************************************************)

\* C27: a gated tool whose is_session_valid call returned false returns the
\* SESSION_EXPIRED result and has made no S3 call, no cache write, no write
\* to the transfer table and has started no workflow.
C27_SessionCheckedFirst ==
    (gate # NoCall /\ gate.valid = "False") =>
        /\ gate.pc = "done"
        /\ gate.ret = "SESSION_EXPIRED"
        /\ gate.s3_calls = 0
        /\ gate.cache_writes = 0
        /\ ~gate.stored
        /\ gate.status_writes = << >>
        /\ gate.workflow = "none"

\* execute_transfer was called with the token of a session that was issued
\* and has expired since, and was refused.
C27_Witness ==
    /\ gate # NoCall
    /\ gate.tool = "execute_transfer"
    /\ gate.tok \in 1 .. nextTok
    /\ HasItem(gate.tok)
    /\ now >= Item(gate.tok).ttl
    /\ gate.valid = "False"
    /\ gate.ret = "SESSION_EXPIRED"

C30_CallBedrockTerminates ==
    (bedrock # NoCall) ~> (bedrock # NoCall /\ bedrock.pc = "done")
====
